---- MODULE Spec2Model ----
(***************************************************************************)
(* Printer transport gateway of src-tauri/src/lib.rs: the command handlers *)
(* tcp_print_escpos, list_serial_ports, serial_print_escpos and            *)
(* spooler_print_raw (Windows build).  Every command dispatches a blocking *)
(* closure to a worker (spawn_blocking) and awaits its result; the closure *)
(* is modelled one OS call per step, so that concurrent calls interleave   *)
(* at every OS call.  `.await` hands the closure's Result to the caller    *)
(* unchanged, so the closure's last step is the step that returns it       *)
(* (pc = "returned"); a closure the worker never ran returns a JoinError.  *)
(*                                                                         *)
(* Strings are sequences of code points (32 = space, 9 = tab).  A buffer   *)
(* length (usize, 64 bit) is the pair [hi, lo] standing for                *)
(* hi * 2^32 + lo with lo < 2^32, so that `as u32` is the projection lo.   *)
(***************************************************************************)
EXTENDS Integers, Sequences, FiniteSets, TLC

\* ------------------------------------------------------------------ bounds
NCalls == 2          \* command invocations that may be in flight together
MaxChunks == 2       \* serial buffers hold up to MaxChunks full chunks (+ a tail)
MaxLo == 20          \* low 32-bit word of a spooler buffer length ranges over 0..MaxLo
MaxPorts == 3        \* devices one OS enumeration returns

\* ------------------------------------------------------- program constants
ChunkSize == 512     \* data.chunks(512)
PaceMs == 20         \* Duration::from_millis(20)

Calls == 1..NCalls

\* the call of the single-call specifications
First == {c \in Calls : \A d \in Calls : c <= d}

NoLen == [hi |-> 0, lo |-> 0]

\* usize length of a buffer held in memory as a sequence
LenOf(data) == [hi |-> 0, lo |-> Len(data)]

\* `data.len() as u32`: the low 32 bits of the length
AsU32(len) == len.lo

\* a u32 value compared with a usize length without truncation
EqualsLen(n, len) == len.hi = 0 /\ len.lo = n

\* a buffer of n bytes whose content differs from chunk to chunk (period 251)
MkData(n) == [i \in 1..n |-> (i * 7) % 251]

\* ------------------------------------------------------------ pure helpers
Min(a, b) == IF a < b THEN a ELSE b

\* char::is_whitespace restricted to ASCII
IsWhitespace(ch) == ch \in {9, 10, 11, 12, 13, 32}

RECURSIVE TrimStart(_)
TrimStart(s) ==
  IF s = <<>> THEN s
  ELSE IF IsWhitespace(Head(s)) THEN TrimStart(Tail(s)) ELSE s

RECURSIVE TrimEnd(_)
TrimEnd(s) ==
  IF s = <<>> THEN s
  ELSE IF IsWhitespace(s[Len(s)]) THEN TrimEnd(SubSeq(s, 1, Len(s) - 1)) ELSE s

\* str::trim
Trim(s) == TrimEnd(TrimStart(s))

IsBlank_NoTrim(name) == name = <<>>

\* printer_name.trim().is_empty()
IsBlank(name) == Trim(name) = <<>>

RECURSIVE ChunksFrom(_, _, _)
ChunksFrom(off, total, size) ==
  IF off >= total THEN <<>>
  ELSE LET n == Min(size, total - off)
       IN  <<[off |-> off, n |-> n]>> \o ChunksFrom(off + n, total, size)

RECURSIVE ChunksExactFrom(_, _, _)
ChunksExactFrom(off, total, size) ==
  IF off + size > total THEN <<>>
  ELSE <<[off |-> off, n |-> size]>> \o ChunksExactFrom(off + size, total, size)

Chunks_DropTail(data, size) == ChunksExactFrom(0, Len(data), size)

\* slice::chunks: the sub-slices [off, off+n) of data, in order
Chunks(data, size) == ChunksFrom(0, Len(data), size)

\* String::cmp: lexicographic order on code points, a proper prefix first
RECURSIVE StrLess(_, _)
StrLess(a, b) ==
  IF b = <<>> THEN FALSE
  ELSE IF a = <<>> THEN TRUE
  ELSE IF Head(a) < Head(b) THEN TRUE
  ELSE IF Head(a) > Head(b) THEN FALSE
  ELSE StrLess(Tail(a), Tail(b))

RECURSIVE InsertSorted(_, _)
InsertSorted(s, x) ==
  IF s = <<>> THEN <<x>>
  ELSE IF StrLess(x.port_name, Head(s).port_name) THEN <<x>> \o s
  ELSE <<Head(s)>> \o InsertSorted(Tail(s), x)

RECURSIVE SortAcc(_, _)
SortAcc(acc, rest) ==
  IF rest = <<>> THEN acc ELSE SortAcc(InsertSorted(acc, Head(rest)), Tail(rest))

\* ports.sort_by(|a, b| a.port_name.cmp(&b.port_name)): a stable sort
SortByPortName(ports) == SortAcc(<<>>, ports)

None == <<>>
Some(x) == <<x>>

\* the closure of .map(|p| ...): one SerialPortDto per enumerated port
ToDto(p) ==
  LET usb == p.port_type = "UsbPort"
  IN [port_name |-> p.port_name,
      port_type |-> CASE p.port_type = "UsbPort" -> "usb"
                      [] p.port_type = "BluetoothPort" -> "bluetooth"
                      [] p.port_type = "PciPort" -> "pci"
                      [] OTHER -> "unknown",
      manufacturer |-> IF usb THEN p.info.manufacturer ELSE None,
      product |-> IF usb THEN p.info.product ELSE None,
      serial_number |-> IF usb THEN p.info.serial_number ELSE None,
      vid |-> IF usb THEN Some(p.info.vid) ELSE None,
      pid |-> IF usb THEN Some(p.info.pid) ELSE None]

MapDto(ports) == [i \in 1..Len(ports) |-> ToDto(ports[i])]

\* ------------------------------------------------------------------- state
VARIABLES
  pc,         \* pc[c]: where call c stands
  arg,        \* arg[c]: the command and its arguments
  hnd,        \* hnd[c]: the OS handle the call holds (0: none / null)
  loc,        \* loc[c]: locals of the closure
  log,        \* log[c]: the OS and library calls made so far, in order
  ret,        \* ret[c]: the Result the command returns
  osHandles   \* the process's open OS handles (sockets, serial ports, printers)

vars == <<pc, arg, hnd, loc, log, ret, osHandles>>

NoArg == [kind |-> "none", name |-> <<>>, num |-> 0, data |-> <<>>, len |-> NoLen]
NoLoc == [idx |-> 0, write_ok |-> FALSE, written |-> 0, page_ok |-> FALSE, doc_ok |-> FALSE,
          ports |-> <<>>]
NoRet == [st |-> "none", msg |-> "", name |-> <<>>, written |-> 0, len |-> NoLen, val |-> <<>>]

Ok == [NoRet EXCEPT !.st = "Ok"]
OkVal(v) == [NoRet EXCEPT !.st = "Ok", !.val = v]
Err(m) == [NoRet EXCEPT !.st = "Err", !.msg = m]
ErrName(m, name) == [NoRet EXCEPT !.st = "Err", !.msg = m, !.name = name]
ErrWrite(m, written, len) == [NoRet EXCEPT !.st = "Err", !.msg = m, !.written = written, !.len = len]

\* one entry of log[c]
Ev(op, ok, h, off, n) == [op |-> op, ok |-> ok, h |-> h, off |-> off, n |-> n]

\* the handle value the OS hands out to call c: one not in use (which value
\* a call gets is the OS's choice; here each call gets its own)
FreshHandle(c) == c

Init ==
  /\ pc = [c \in Calls |-> "idle"]
  /\ arg = [c \in Calls |-> NoArg]
  /\ hnd = [c \in Calls |-> 0]
  /\ loc = [c \in Calls |-> NoLoc]
  /\ log = [c \in Calls |-> <<>>]
  /\ ret = [c \in Calls |-> NoRet]
  /\ osHandles = {}

\* ---- shorthand for the common updates
Goto(c, l) == pc' = [pc EXCEPT ![c] = l]
Logged(c, e) == log' = [log EXCEPT ![c] = Append(@, e)]
Returns(c, r) == ret' = [ret EXCEPT ![c] = r]

\* spawn_blocking(move || ...): the closure is queued with its captured arguments
Dispatch(c, a) ==
  /\ pc[c] = "idle"
  /\ arg' = [arg EXCEPT ![c] = a]
  /\ Goto(c, "queued")
  /\ UNCHANGED <<hnd, loc, log, ret, osHandles>>

JoinErrMsg(kind) ==
  CASE kind = "spooler" -> "Spooler print task failed"
    [] kind = "list" -> "List ports task failed"
    [] OTHER -> "Print task failed"

\* .await.map_err(...): the worker never ran the closure (JoinError)
TaskNotRun(c) ==
  /\ pc[c] = "queued"
  /\ Returns(c, Err(JoinErrMsg(arg[c].kind)))
  /\ Goto(c, "returned")
  /\ UNCHANGED <<arg, hnd, loc, log, osHandles>>

\* the worker starts running the closure
TaskStart(c) ==
  /\ pc[c] = "queued"
  /\ Goto(c, CASE arg[c].kind = "tcp" -> "tcp_resolve"
               [] arg[c].kind = "serial" -> "ser_open"
               [] arg[c].kind = "spooler" -> "sp_validate"
               [] OTHER -> "ls_enum")
  /\ UNCHANGED <<arg, hnd, loc, log, ret, osHandles>>

InFlight(c) == pc[c] \notin {"idle", "returned"}
\* the call returned what its closure produced (no JoinError)
Ran(c) == pc[c] = "returned" /\ ret[c].msg # JoinErrMsg(arg[c].kind)

\* ------------------------------------------------- handle table of the OS
\* the OS opens a handle for call c
Acquire(c) ==
  /\ FreshHandle(c) \notin osHandles
  /\ osHandles' = osHandles \cup {FreshHandle(c)}
  /\ hnd' = [hnd EXCEPT ![c] = FreshHandle(c)]

\* the OS closes the handle call c holds
Release(c) ==
  /\ osHandles' = osHandles \ {hnd[c]}
  /\ hnd' = [hnd EXCEPT ![c] = 0]

\* ------------------------------------------------------- tcp_print_escpos
tcp_print_escpos(c, host, port, data) ==
  Dispatch(c, [kind |-> "tcp", name |-> host, num |-> port, data |-> data,
               len |-> LenOf(data)])

\* (host, port).to_socket_addrs()?.next().ok_or(..)?
TcpResolve(c) ==
  /\ pc[c] = "tcp_resolve"
  /\ \E out \in {"err", "empty", "addr"} :
       /\ Logged(c, Ev("to_socket_addrs", out = "addr", 0, 0, 0))
       /\ CASE out = "err" ->
                 /\ Returns(c, Err("Unable to resolve host: {e}"))
                 /\ Goto(c, "returned")
            [] out = "empty" ->
                 /\ Returns(c, Err("Unable to resolve host"))
                 /\ Goto(c, "returned")
            [] OTHER ->
                 /\ Goto(c, "tcp_connect")
                 /\ UNCHANGED ret
  /\ UNCHANGED <<arg, hnd, loc, osHandles>>

\* TcpStream::connect_timeout(&addr, timeout)?
TcpConnect(c) ==
  /\ pc[c] = "tcp_connect"
  /\ \E ok \in BOOLEAN :
       IF ok
       THEN /\ Acquire(c)
            /\ Logged(c, Ev("connect_timeout", TRUE, FreshHandle(c), 0, 0))
            /\ Goto(c, "tcp_set_write_timeout")
            /\ UNCHANGED ret
       ELSE /\ Logged(c, Ev("connect_timeout", FALSE, 0, 0, 0))
            /\ Returns(c, Err("TCP connect failed"))
            /\ Goto(c, "returned")
            /\ UNCHANGED <<hnd, osHandles>>
  /\ UNCHANGED <<arg, loc>>

\* let _ = stream.set_write_timeout(..)
TcpSetWriteTimeout(c) ==
  /\ pc[c] = "tcp_set_write_timeout"
  /\ \E ok \in BOOLEAN : Logged(c, Ev("set_write_timeout", ok, hnd[c], 0, 0))
  /\ Goto(c, "tcp_set_nodelay")
  /\ UNCHANGED <<arg, hnd, loc, ret, osHandles>>

\* let _ = stream.set_nodelay(true)
TcpSetNodelay(c) ==
  /\ pc[c] = "tcp_set_nodelay"
  /\ \E ok \in BOOLEAN : Logged(c, Ev("set_nodelay", ok, hnd[c], 0, 0))
  /\ Goto(c, "tcp_write")
  /\ UNCHANGED <<arg, hnd, loc, ret, osHandles>>

\* stream.write_all(&data)?
TcpWriteAll(c) ==
  /\ pc[c] = "tcp_write"
  /\ \E ok \in BOOLEAN :
       /\ Logged(c, Ev("write_all", ok, hnd[c], 0, Len(arg[c].data)))
       /\ IF ok
          THEN Goto(c, "tcp_flush") /\ UNCHANGED ret
          ELSE Returns(c, Err("TCP write failed")) /\ Goto(c, "tcp_drop")
  /\ UNCHANGED <<arg, hnd, loc, osHandles>>

TcpFlush_Surfaced(c) ==
  /\ pc[c] = "tcp_flush"
  /\ \E ok \in BOOLEAN :
       /\ Logged(c, Ev("flush", ok, hnd[c], 0, 0))
       /\ Returns(c, IF ok THEN Ok ELSE Err("TCP flush failed"))
  /\ Goto(c, "tcp_drop")
  /\ UNCHANGED <<arg, hnd, loc, osHandles>>

\* let _ = stream.flush(); Ok(())
TcpFlush(c) ==
  /\ pc[c] = "tcp_flush"
  /\ \E ok \in BOOLEAN : Logged(c, Ev("flush", ok, hnd[c], 0, 0))
  /\ Returns(c, Ok)
  /\ Goto(c, "tcp_drop")
  /\ UNCHANGED <<arg, hnd, loc, osHandles>>

\* `stream` goes out of scope as the closure returns: the socket is closed
TcpDrop(c) ==
  /\ pc[c] = "tcp_drop"
  /\ Logged(c, Ev("close", TRUE, hnd[c], 0, 0))
  /\ Release(c)
  /\ Goto(c, "returned")
  /\ UNCHANGED <<arg, loc, ret>>

TcpStep(c) ==
  \/ TcpResolve(c)
  \/ TcpConnect(c)
  \/ TcpSetWriteTimeout(c)
  \/ TcpSetNodelay(c)
  \/ TcpWriteAll(c)
  \/ TcpFlush(c)
  \/ TcpDrop(c)

\* ---------------------------------------------------- serial_print_escpos
serial_print_escpos(c, port, baud, data) ==
  Dispatch(c, [kind |-> "serial", name |-> port, num |-> baud, data |-> data,
               len |-> LenOf(data)])

\* serialport::new(port, baud).timeout(..).open()?
SerOpen(c) ==
  /\ pc[c] = "ser_open"
  /\ \E ok \in BOOLEAN :
       IF ok
       THEN /\ Acquire(c)
            /\ Logged(c, Ev("open", TRUE, FreshHandle(c), 0, 0))
            /\ Goto(c, "ser_loop")
            /\ UNCHANGED ret
       ELSE /\ Logged(c, Ev("open", FALSE, 0, 0, 0))
            /\ Returns(c, ErrName("Unable to open serial port", arg[c].name))
            /\ Goto(c, "returned")
            /\ UNCHANGED <<hnd, osHandles>>
  /\ UNCHANGED <<arg, loc>>

\* the chunks the for loop iterates over
SerChunks(c) == Chunks(arg[c].data, ChunkSize)

SerWrite_IgnoreError(c) ==
  /\ pc[c] = "ser_loop"
  /\ loc[c].idx < Len(SerChunks(c))
  /\ LET sl == SerChunks(c)[loc[c].idx + 1]
     IN \E ok \in BOOLEAN : Logged(c, Ev("write_all", ok, hnd[c], sl.off, sl.n))
  /\ Goto(c, "ser_sleep")
  /\ UNCHANGED <<arg, hnd, loc, ret, osHandles>>

\* for chunk in data.chunks(512) { sp.write_all(chunk)?; ...
SerWrite(c) ==
  /\ pc[c] = "ser_loop"
  /\ loc[c].idx < Len(SerChunks(c))
  /\ LET sl == SerChunks(c)[loc[c].idx + 1]
     IN \E ok \in BOOLEAN :
          /\ Logged(c, Ev("write_all", ok, hnd[c], sl.off, sl.n))
          /\ IF ok
             THEN Goto(c, "ser_sleep") /\ UNCHANGED ret
             ELSE /\ Returns(c, ErrName("Serial write failed", arg[c].name))
                  /\ Goto(c, "ser_drop")
  /\ UNCHANGED <<arg, hnd, loc, osHandles>>

\* ... std::thread::sleep(Duration::from_millis(20)); } and on to the next chunk
SerSleep(c) ==
  /\ pc[c] = "ser_sleep"
  /\ Logged(c, Ev("sleep", TRUE, 0, 0, PaceMs))
  /\ loc' = [loc EXCEPT ![c].idx = @ + 1]
  /\ Goto(c, "ser_loop")
  /\ UNCHANGED <<arg, hnd, ret, osHandles>>

\* sp.flush()?; Ok(()), once the loop is exhausted
SerFlush(c) ==
  /\ pc[c] = "ser_loop"
  /\ loc[c].idx >= Len(SerChunks(c))
  /\ \E ok \in BOOLEAN :
       /\ Logged(c, Ev("flush", ok, hnd[c], 0, 0))
       /\ Returns(c, IF ok THEN Ok ELSE ErrName("Serial flush failed", arg[c].name))
  /\ Goto(c, "ser_drop")
  /\ UNCHANGED <<arg, hnd, loc, osHandles>>

\* `sp` goes out of scope as the closure returns: the port is closed
SerDrop(c) ==
  /\ pc[c] = "ser_drop"
  /\ Logged(c, Ev("close", TRUE, hnd[c], 0, 0))
  /\ Release(c)
  /\ Goto(c, "returned")
  /\ UNCHANGED <<arg, loc, ret>>

SerStep(c) ==
  \/ SerOpen(c)
  \/ SerWrite(c)
  \/ SerSleep(c)
  \/ SerFlush(c)
  \/ SerDrop(c)

\* ------------------------------------------------------ list_serial_ports
list_serial_ports(c) ==
  Dispatch(c, [NoArg EXCEPT !.kind = "list"])

UsbInfo == [manufacturer |-> Some(<<70>>), product |-> None, serial_number |-> None,
            vid |-> 1027, pid |-> 24577]
NoInfo == [manufacturer |-> None, product |-> None, serial_number |-> None,
           vid |-> 0, pid |-> 0]

\* device names an enumeration may report: "COM1", "COM10", "COM2"
PortNames == {<<67, 79, 77, 49>>, <<67, 79, 77, 49, 48>>, <<67, 79, 77, 50>>}

\* serialport::SerialPortInfo values the OS may report
PortInfos ==
  {[port_name |-> n, port_type |-> t, info |-> IF t = "UsbPort" THEN UsbInfo ELSE NoInfo] :
     n \in PortNames, t \in {"UsbPort", "BluetoothPort", "PciPort", "Unknown"}}

\* what serialport::available_ports() may return on success: any order, any repeats
Enumerations == UNION {[1..k -> PortInfos] : k \in 0..MaxPorts}

\* the whole closure: enumerate, sort by name, map to DTOs
LsRun(c) ==
  /\ pc[c] = "ls_enum"
  /\ \/ /\ Logged(c, Ev("available_ports", FALSE, 0, 0, 0))
        /\ Returns(c, Err("Unable to list serial ports"))
        /\ UNCHANGED loc
     \/ \E ports \in Enumerations :
          /\ Logged(c, Ev("available_ports", TRUE, 0, 0, Len(ports)))
          /\ loc' = [loc EXCEPT ![c].ports = ports]
          /\ Returns(c, OkVal(MapDto(SortByPortName(ports))))
  /\ Goto(c, "returned")
  /\ UNCHANGED <<arg, hnd, osHandles>>

\* ------------------------------ windows_printing::spooler_print_raw (Windows)
spooler_print_raw(c, printer_name, len) ==
  Dispatch(c, [kind |-> "spooler", name |-> printer_name, num |-> 0, data |-> <<>>,
               len |-> len])

\* printer queues the OS knows: "P1"
KnownPrinters == {<<80, 49>>}

\* if printer_name.trim().is_empty() { return Err(..) }
SpValidate(c) ==
  /\ pc[c] = "sp_validate"
  /\ IF IsBlank(arg[c].name)
     THEN Returns(c, Err("Printer name is required")) /\ Goto(c, "returned")
     ELSE Goto(c, "sp_open") /\ UNCHANGED ret
  /\ UNCHANGED <<arg, hnd, loc, log, osHandles>>

\* what OpenPrinterW may answer for a name: a handle, a failure, or (against
\* its contract) success with a null handle
OpenOutcomes(name) ==
  IF name \in KnownPrinters THEN {"handle", "fail", "ok_null"} ELSE {"fail"}

\* OpenPrinterW(..); if open_ok == 0 || handle.is_null() { return Err(..) }
SpOpenPrinter(c) ==
  /\ pc[c] = "sp_open"
  /\ \E out \in OpenOutcomes(arg[c].name) :
       IF out = "handle"
       THEN /\ Acquire(c)
            /\ Logged(c, Ev("OpenPrinterW", TRUE, FreshHandle(c), 0, 0))
            /\ Goto(c, "sp_startdoc")
            /\ UNCHANGED ret
       ELSE /\ Logged(c, Ev("OpenPrinterW", out = "ok_null", 0, 0, 0))
            /\ Returns(c, ErrName("Failed to open printer", arg[c].name))
            /\ Goto(c, "returned")
            /\ UNCHANGED <<hnd, osHandles>>
  /\ UNCHANGED <<arg, loc>>

\* let job_id = StartDocPrinterW(handle, 1, &doc_info); if job_id == 0 ..
SpStartDoc(c) ==
  /\ pc[c] = "sp_startdoc"
  /\ \E ok \in BOOLEAN :
       /\ Logged(c, Ev("StartDocPrinterW", ok, hnd[c], 0, 0))
       /\ Goto(c, IF ok THEN "sp_startpage" ELSE "sp_docfail_close")
  /\ UNCHANGED <<arg, hnd, loc, ret, osHandles>>

\* .. { ClosePrinter(handle); return Err("StartDocPrinter failed") }
SpCloseAfterDocFail(c) ==
  /\ pc[c] = "sp_docfail_close"
  /\ Logged(c, Ev("ClosePrinter", TRUE, hnd[c], 0, 0))
  /\ Release(c)
  /\ Returns(c, Err("StartDocPrinter failed"))
  /\ Goto(c, "returned")
  /\ UNCHANGED <<arg, loc>>

\* if StartPagePrinter(handle) == 0 ..
SpStartPage(c) ==
  /\ pc[c] = "sp_startpage"
  /\ \E ok \in BOOLEAN :
       /\ Logged(c, Ev("StartPagePrinter", ok, hnd[c], 0, 0))
       /\ Goto(c, IF ok THEN "sp_write" ELSE "sp_pagefail_enddoc")
  /\ UNCHANGED <<arg, hnd, loc, ret, osHandles>>

SpEndDocAfterPageFail_Skipped(c) ==
  /\ pc[c] = "sp_pagefail_enddoc"
  /\ Goto(c, "sp_pagefail_close")
  /\ UNCHANGED <<arg, hnd, loc, log, ret, osHandles>>

\* .. { EndDocPrinter(handle); ..  (its result is not looked at)
SpEndDocAfterPageFail(c) ==
  /\ pc[c] = "sp_pagefail_enddoc"
  /\ \E ok \in BOOLEAN : Logged(c, Ev("EndDocPrinter", ok, hnd[c], 0, 0))
  /\ Goto(c, "sp_pagefail_close")
  /\ UNCHANGED <<arg, hnd, loc, ret, osHandles>>

SpCloseAfterPageFail_Leak(c) ==
  /\ pc[c] = "sp_pagefail_close"
  /\ Returns(c, Err("StartPagePrinter failed"))
  /\ Goto(c, "returned")
  /\ UNCHANGED <<arg, hnd, loc, log, osHandles>>

\* .. ClosePrinter(handle); return Err("StartPagePrinter failed") }
SpCloseAfterPageFail(c) ==
  /\ pc[c] = "sp_pagefail_close"
  /\ Logged(c, Ev("ClosePrinter", TRUE, hnd[c], 0, 0))
  /\ Release(c)
  /\ Returns(c, Err("StartPagePrinter failed"))
  /\ Goto(c, "returned")
  /\ UNCHANGED <<arg, loc>>

SpWrite_EarlyReturn(c) ==
  /\ pc[c] = "sp_write"
  /\ \E ok \in BOOLEAN : \E written \in 0..AsU32(arg[c].len) :
       /\ Logged(c, Ev("WritePrinter", ok, hnd[c], 0, AsU32(arg[c].len)))
       /\ loc' = [loc EXCEPT ![c].write_ok = ok, ![c].written = written,
                             ![c].page_ok = TRUE, ![c].doc_ok = TRUE]
       /\ Goto(c, IF ok THEN "sp_endpage" ELSE "sp_close")
  /\ UNCHANGED <<arg, hnd, ret, osHandles>>

\* let write_ok = WritePrinter(handle, data.as_ptr(), data.len() as u32, &mut written);
\* the OS is handed cbBuf = data.len() as u32 bytes and reports how many it took
SpWrite(c) ==
  /\ pc[c] = "sp_write"
  /\ \E ok \in BOOLEAN : \E written \in 0..AsU32(arg[c].len) :
       /\ Logged(c, Ev("WritePrinter", ok, hnd[c], 0, AsU32(arg[c].len)))
       /\ loc' = [loc EXCEPT ![c].write_ok = ok, ![c].written = written]
  /\ Goto(c, "sp_endpage")
  /\ UNCHANGED <<arg, hnd, ret, osHandles>>

\* let page_ok = EndPagePrinter(handle);
SpEndPage(c) ==
  /\ pc[c] = "sp_endpage"
  /\ \E ok \in BOOLEAN :
       /\ Logged(c, Ev("EndPagePrinter", ok, hnd[c], 0, 0))
       /\ loc' = [loc EXCEPT ![c].page_ok = ok]
  /\ Goto(c, "sp_enddoc")
  /\ UNCHANGED <<arg, hnd, ret, osHandles>>

\* let doc_ok = EndDocPrinter(handle);
SpEndDoc(c) ==
  /\ pc[c] = "sp_enddoc"
  /\ \E ok \in BOOLEAN :
       /\ Logged(c, Ev("EndDocPrinter", ok, hnd[c], 0, 0))
       /\ loc' = [loc EXCEPT ![c].doc_ok = ok]
  /\ Goto(c, "sp_close")
  /\ UNCHANGED <<arg, hnd, ret, osHandles>>

\* ClosePrinter(handle);
SpClose(c) ==
  /\ pc[c] = "sp_close"
  /\ Logged(c, Ev("ClosePrinter", TRUE, hnd[c], 0, 0))
  /\ Release(c)
  /\ Goto(c, "sp_decide")
  /\ UNCHANGED <<arg, loc, ret>>

\* the Result chosen after the handle is closed
SpResult(write_ok, written, page_ok, doc_ok, len) ==
  IF ~write_ok \/ written # AsU32(len)
  THEN ErrWrite("WritePrinter failed", written, len)
  ELSE IF ~page_ok \/ ~doc_ok
  THEN Err("Failed to finalize print job")
  ELSE Ok

\* if write_ok == 0 || written != data.len() as u32 {..} if page_ok == 0 || doc_ok == 0 {..} Ok(())
SpDecide(c) ==
  /\ pc[c] = "sp_decide"
  /\ Returns(c, SpResult(loc[c].write_ok, loc[c].written, loc[c].page_ok,
                         loc[c].doc_ok, arg[c].len))
  /\ Goto(c, "returned")
  /\ UNCHANGED <<arg, hnd, loc, log, osHandles>>

SpStep(c) ==
  \/ SpValidate(c)
  \/ SpOpenPrinter(c)
  \/ SpStartDoc(c)
  \/ SpCloseAfterDocFail(c)
  \/ SpStartPage(c)
  \/ SpEndDocAfterPageFail(c)
  \/ SpCloseAfterPageFail(c)
  \/ SpWrite(c)
  \/ SpEndPage(c)
  \/ SpEndDoc(c)
  \/ SpClose(c)
  \/ SpDecide(c)

\* ------------------------------------------------------------------ inputs
\* hosts: "p" and the empty string; port 9100
TcpHosts == {<<112>>, <<>>}
TcpPorts == {9100}
TcpData == {MkData(0), MkData(2)}

\* serial devices "COM1" and "COM2" at 9600 baud
SerialPorts == {<<67, 79, 77, 49>>, <<67, 79, 77, 50>>}
Bauds == {9600}
SerialData == {MkData(k * ChunkSize + d) : k \in 0..MaxChunks, d \in {0, 1, ChunkSize - 1}}

\* printer names: "", " ", "\t ", "P1", " P1", "X"
PrinterNames == {<<>>, <<32>>, <<9, 32>>, <<80, 49>>, <<32, 80, 49>>, <<88>>}
BufferLens == {[hi |-> h, lo |-> l] : h \in {0, 1}, l \in 0..MaxLo}

\* ---------------------------------------------------------- specifications
NextTcp ==
  \E c \in First :
    \/ \E host \in TcpHosts, port \in TcpPorts, data \in TcpData :
         tcp_print_escpos(c, host, port, data)
    \/ TaskNotRun(c)
    \/ TaskStart(c)
    \/ TcpStep(c)

SpecTcp == Init /\ [][NextTcp]_vars

NextSerial ==
  \E c \in First :
    \/ \E port \in SerialPorts, baud \in Bauds, data \in SerialData :
         serial_print_escpos(c, port, baud, data)
    \/ TaskNotRun(c)
    \/ TaskStart(c)
    \/ SerStep(c)

SpecSerial == Init /\ [][NextSerial]_vars

NextSpooler ==
  \E c \in First :
    \/ \E name \in PrinterNames, len \in BufferLens : spooler_print_raw(c, name, len)
    \/ TaskNotRun(c)
    \/ TaskStart(c)
    \/ SpStep(c)

SpecSpooler == Init /\ [][NextSpooler]_vars

NextList ==
  \E c \in First :
    \/ list_serial_ports(c)
    \/ TaskNotRun(c)
    \/ TaskStart(c)
    \/ LsRun(c)

SpecList == Init /\ [][NextList]_vars

\* concurrent print commands of all three transports, racing freely
NextConc ==
  \E c \in Calls :
    \/ tcp_print_escpos(c, <<112>>, 9100, MkData(1))
    \/ serial_print_escpos(c, <<67, 79, 77, 49>>, 9600, MkData(1))
    \/ \E name \in {<<32>>, <<80, 49>>} :
         spooler_print_raw(c, name, [hi |-> 0, lo |-> 0])
    \/ TaskNotRun(c)
    \/ TaskStart(c)
    \/ TcpStep(c)
    \/ SerStep(c)
    \/ SpStep(c)

SpecConc == Init /\ [][NextConc]_vars

\* ------------------------------------------------------ reading the logs
Ops(l) == [i \in 1..Len(l) |-> l[i].op]
Count(l, op) == Cardinality({i \in 1..Len(l) : l[i].op = op})
Has(l, op, ok) == \E i \in 1..Len(l) : l[i].op = op /\ l[i].ok = ok
IsPrefix(a, b) == Len(a) <= Len(b) /\ a = SubSeq(b, 1, Len(a))
Finished(c) == pc[c] = "returned"
Running(c) == pc[c] \notin {"idle", "queued", "returned"}
IsWriteAll(e) == e.op = "write_all"
IsIo(e) == e.op \in {"to_socket_addrs", "connect_timeout", "write_all", "flush"}

RECURSIVE ConcatSlices(_, _)
ConcatSlices(data, l) ==
  IF l = <<>> THEN <<>>
  ELSE SubSeq(data, Head(l).off + 1, Head(l).off + Head(l).n) \o ConcatSlices(data, Tail(l))

\* ------------------------------------------------------------------ claims

\* C1: every OS handle a call opened (socket, serial port, printer handle) is
\* released before the call's result is available: the open handles are exactly
\* the handles held by calls whose closure is still running, one per call, so
\* their number never exceeds the number of in-flight calls and is zero when no
\* call is in flight; a finished call has closed every handle it opened, and
\* spooler_print_raw has called ClosePrinter exactly once if OpenPrinterW gave
\* a handle and never otherwise.
C1_HandlesReleased ==
  /\ osHandles = {hnd[c] : c \in {d \in Calls : hnd[d] # 0}}
  /\ \A c, d \in Calls : hnd[c] # 0 /\ hnd[c] = hnd[d] => c = d
  /\ \A c \in Calls : hnd[c] # 0 => Running(c)
  /\ Cardinality(osHandles) <= Cardinality({c \in Calls : InFlight(c)})
  /\ (\A c \in Calls : ~InFlight(c)) => osHandles = {}
  /\ \A c \in Calls :
       LET opened == {i \in 1..Len(log[c]) :
                        /\ log[c][i].op \in {"connect_timeout", "open", "OpenPrinterW"}
                        /\ log[c][i].ok /\ log[c][i].h # 0}
           closed == {i \in 1..Len(log[c]) : log[c][i].op \in {"close", "ClosePrinter"}}
       IN /\ Cardinality(closed) <= Cardinality(opened)
          /\ Cardinality(opened) <= 1
          /\ Finished(c) => Cardinality(closed) = Cardinality(opened)
          /\ \A j \in closed : \E i \in opened : i < j /\ log[c][i].h = log[c][j].h

\* a spooler call returned its StartPagePrinter error with its handle closed
\* while another call still holds the only open handle
C1_Witness ==
  \E c, d \in Calls :
    /\ c # d
    /\ pc[c] = "returned" /\ ret[c] = Err("StartPagePrinter failed")
    /\ Count(log[c], "ClosePrinter") = 1
    /\ hnd[d] # 0 /\ osHandles = {hnd[d]}

PageFailOps ==
  <<"OpenPrinterW", "StartDocPrinterW", "StartPagePrinter", "EndDocPrinter", "ClosePrinter">>

\* C2: when OpenPrinterW and StartDocPrinterW succeed and StartPagePrinter fails,
\* the call invokes EndDocPrinter and then ClosePrinter on the handle, in that
\* order, and only then returns the page-start error; WritePrinter and
\* EndPagePrinter are never invoked on that path.
C2_PageFailPath ==
  \A c \in Calls :
    Has(log[c], "StartPagePrinter", FALSE) =>
      /\ IsPrefix(Ops(log[c]), PageFailOps)
      /\ log[c][1].ok /\ log[c][2].ok
      /\ \A i \in 1..Len(log[c]) : log[c][i].h = log[c][1].h
      /\ ret[c].st # "none" => Ops(log[c]) = PageFailOps
      /\ Finished(c) => Ops(log[c]) = PageFailOps /\ ret[c] = Err("StartPagePrinter failed")

C2_Witness ==
  \E c \in Calls :
    /\ pc[c] = "returned"
    /\ Has(log[c], "StartPagePrinter", FALSE)
    /\ Has(log[c], "EndDocPrinter", FALSE)

WriteOps ==
  <<"OpenPrinterW", "StartDocPrinterW", "StartPagePrinter", "WritePrinter",
    "EndPagePrinter", "EndDocPrinter", "ClosePrinter">>

\* C3: once StartPagePrinter has succeeded, WritePrinter is invoked exactly once
\* and then EndPagePrinter, EndDocPrinter and ClosePrinter exactly once each, in
\* that order, whatever WritePrinter, EndPagePrinter and EndDocPrinter report;
\* no OS call is made on the handle after ClosePrinter.
C3_WriteThenRelease ==
  \A c \in Calls :
    Has(log[c], "StartPagePrinter", TRUE) =>
      /\ IsPrefix(Ops(log[c]), WriteOps)
      /\ \A i \in 1..Len(log[c]) : log[c][i].h = log[c][1].h
      /\ ret[c].st # "none" => Ops(log[c]) = WriteOps
      /\ Finished(c) => Ops(log[c]) = WriteOps

C3_Witness ==
  \E c \in Calls :
    /\ pc[c] = "returned"
    /\ Has(log[c], "WritePrinter", FALSE)
    /\ Has(log[c], "EndPagePrinter", FALSE)
    /\ Ops(log[c]) = WriteOps

\* C4: for every buffer length, spooler_print_raw succeeds only if the
\* bytes-written count the OS reported equals the buffer length; when
\* WritePrinter reports success with a different count the call returns the
\* write error stating written/length, the handle having been closed.
C4_ExactWrite ==
  \A c \in Calls :
    (arg[c].kind = "spooler" /\ Finished(c) /\ Count(log[c], "WritePrinter") = 1) =>
      /\ ret[c] = Ok => EqualsLen(loc[c].written, arg[c].len)
      /\ (loc[c].write_ok /\ ~EqualsLen(loc[c].written, arg[c].len)) =>
           /\ ret[c] = ErrWrite("WritePrinter failed", loc[c].written, arg[c].len)
           /\ hnd[c] = 0 /\ osHandles = {}

\* C5 as stated: a blank printer name, and a name the OS does not know, both
\* make spooler_print_raw return the validation error without any OS printer
\* call having been made.
C5_UnknownOrBlankValidation ==
  \A c \in Calls :
    (arg[c].kind = "spooler" /\ Finished(c) /\ Ran(c)
       /\ (Trim(arg[c].name) = <<>> \/ arg[c].name \notin KnownPrinters)) =>
      ret[c] = Err("Printer name is required") /\ log[c] = <<>>

\* C5 as amended: a blank (empty or whitespace-only) printer name makes
\* spooler_print_raw return the validation error without any OS printer call;
\* a non-blank name the OS does not know is handed to OpenPrinterW, which
\* fails, and the call returns the open error naming the printer, no handle
\* opened and no other OS printer call made.
C5_BlankValidationUnknownOpenError ==
  \A c \in Calls :
    (arg[c].kind = "spooler" /\ Finished(c) /\ Ran(c)) =>
      /\ Trim(arg[c].name) = <<>> =>
           ret[c] = Err("Printer name is required") /\ log[c] = <<>>
      /\ (Trim(arg[c].name) # <<>> /\ arg[c].name \notin KnownPrinters) =>
           /\ ret[c] = ErrName("Failed to open printer", arg[c].name)
           /\ Ops(log[c]) = <<"OpenPrinterW">>
           /\ log[c][1].h = 0 /\ hnd[c] = 0 /\ osHandles = {}

C5_Witness ==
  \E c \in Calls :
    /\ pc[c] = "returned"
    /\ arg[c].name = <<9, 32>>
    /\ ret[c] = Err("Printer name is required")
    /\ log[c] = <<>>

\* the write_all entries of call c's log, in order
WritesOf(c) == SelectSeq(log[c], IsWriteAll)

\* the log positions of call c's write_all entries
WriteAt(c) == {i \in 1..Len(log[c]) : log[c][i].op = "write_all"}

\* C6: when the serial port opens and every write succeeds, serial_print_escpos
\* issues ceil(len(data)/512) chunk writes, every chunk but the last of exactly
\* 512 bytes and the last of 1..512 bytes, the chunks concatenated in write
\* order equal data, and a 20 ms delay lies between every two consecutive
\* chunk writes.
C6_ChunkedPacedWrite ==
  \A c \in Calls :
    (arg[c].kind = "serial" /\ Count(log[c], "flush") = 1) =>
      LET w == WritesOf(c)
          total == Len(arg[c].data)
          k == (total + 511) \div 512
      IN /\ Len(w) = k
         /\ \A i \in 1..k : w[i].ok
         /\ \A i \in 1..(k - 1) : w[i].n = 512
         /\ k > 0 => w[k].n \in 1..512
         /\ ConcatSlices(arg[c].data, w) = arg[c].data
         /\ \A i, j \in WriteAt(c) :
              i < j => \E m \in (i + 1)..(j - 1) :
                         log[c][m].op = "sleep" /\ log[c][m].n = 20

C6_Witness ==
  \E c \in Calls :
    /\ pc[c] = "returned" /\ ret[c] = Ok
    /\ Len(arg[c].data) = 1025
    /\ Len(WritesOf(c)) = 3
    /\ Count(log[c], "sleep") = 3

\* C7: serial_print_escpos has no retry and no partial success: the open and
\* each chunk write are attempted at most once; after a failed open no write is
\* made; after a failed write of chunk k no later chunk is written, flush is
\* not called and the call returns the write error naming the port; flush is
\* called at most once, only after every chunk was written successfully, and a
\* failed flush makes the call return the flush error.
C7_NoRetryNoPartial ==
  \A c \in Calls :
    arg[c].kind = "serial" =>
      LET l == log[c]
          w == WritesOf(c)
      IN /\ Count(l, "open") <= 1
         /\ \A i, j \in 1..Len(w) : i < j => w[i].off < w[j].off
         /\ Has(l, "open", FALSE) =>
              /\ Len(l) = 1
              /\ Finished(c)
              /\ ret[c] = ErrName("Unable to open serial port", arg[c].name)
         /\ \A i \in 1..Len(l) :
              (l[i].op = "write_all" /\ ~l[i].ok) =>
                /\ \A j \in (i + 1)..Len(l) : l[j].op = "close"
                /\ ret[c] = ErrName("Serial write failed", arg[c].name)
         /\ Count(l, "flush") <= 1
         /\ \A i \in 1..Len(l) :
              l[i].op = "flush" =>
                /\ \A j \in 1..Len(w) : w[j].ok
                /\ ConcatSlices(arg[c].data, w) = arg[c].data
                /\ \A j \in (i + 1)..Len(l) : l[j].op = "close"
                /\ ret[c] = IF l[i].ok THEN Ok
                            ELSE ErrName("Serial flush failed", arg[c].name)
         /\ (Finished(c) /\ Ran(c)) =>
              (ret[c] = Ok <=> (Has(l, "flush", TRUE) /\ ~Has(l, "write_all", FALSE)))

\* the second of three chunk writes failed: the call returned the write error,
\* having written nothing after it and not flushed
C7_Witness ==
  \E c \in Calls :
    /\ pc[c] = "returned"
    /\ Len(arg[c].data) = 1025
    /\ Len(WritesOf(c)) = 2
    /\ WritesOf(c)[1].ok /\ ~WritesOf(c)[2].ok
    /\ ret[c] = ErrName("Serial write failed", arg[c].name)

\* C8: tcp_print_escpos performs resolve, connect, write, flush in that order,
\* stopping at the first of resolve, connect and write that fails, and, when the
\* worker ran the task, returns success exactly when resolution yielded an
\* address, the connect succeeded and the write succeeded: a failed flush,
\* set_write_timeout or set_nodelay never makes the result an error.
C8_TcpOrderAndResult ==
  \A c \in Calls :
    arg[c].kind = "tcp" =>
      LET l == log[c]
          io == SelectSeq(l, IsIo)
      IN /\ IsPrefix(Ops(io), <<"to_socket_addrs", "connect_timeout", "write_all", "flush">>)
         /\ \A i \in 1..Len(io) :
              (~io[i].ok /\ io[i].op # "flush") => i = Len(io)
         /\ (Finished(c) /\ Ran(c)) =>
              (ret[c] = Ok <=> /\ Has(l, "to_socket_addrs", TRUE)
                               /\ Has(l, "connect_timeout", TRUE)
                               /\ Has(l, "write_all", TRUE))

C8_Witness ==
  \E c \in Calls :
    /\ pc[c] = "returned" /\ ret[c] = Ok
    /\ Has(log[c], "flush", FALSE)
    /\ Has(log[c], "set_write_timeout", FALSE)
    /\ Has(log[c], "set_nodelay", FALSE)

\* C9: for every list the OS enumeration returns, the successful output of
\* list_serial_ports is sorted ascending by device name and holds no name twice.
C9_SortedNoDuplicates ==
  \A c \in Calls :
    (arg[c].kind = "list" /\ Finished(c) /\ ret[c].st = "Ok") =>
      \A i, j \in 1..Len(ret[c].val) :
        i < j => /\ ~StrLess(ret[c].val[j].port_name, ret[c].val[i].port_name)
                 /\ ret[c].val[i].port_name # ret[c].val[j].port_name

\* C10: the result after the write step is decided in a fixed priority: a failed
\* WritePrinter or a written count different from the buffer length gives the
\* write error whatever EndPagePrinter and EndDocPrinter report; otherwise a
\* failed EndPagePrinter or EndDocPrinter gives the finalize error; success only
\* when the write was complete and both succeeded.
C10_ResultPriority ==
  \A c \in Calls :
    (arg[c].kind = "spooler" /\ Finished(c) /\ Count(log[c], "WritePrinter") = 1) =>
      LET complete == loc[c].write_ok /\ EqualsLen(loc[c].written, arg[c].len)
          finalized == loc[c].page_ok /\ loc[c].doc_ok
      IN /\ ~complete => ret[c] = ErrWrite("WritePrinter failed", loc[c].written, arg[c].len)
         /\ (complete /\ ~finalized) => ret[c] = Err("Failed to finalize print job")
         /\ ret[c] = Ok <=> (complete /\ finalized)

====
